---------------------------- MODULE Spec2Model ----------------------------
(***************************************************************************)
(* SetVersion.py: set the version in all csproj and inno setup files.      *)
(*                                                                         *)
(* Text (file names, paths, file contents, version strings) is a sequence  *)
(* of one-character strings, so that os.path.splitext, str.split, str.join *)
(* and re.sub are computed character by character as the script computes   *)
(* them.  The file system is the function fs from path to file content.    *)
(* The script's functions are importable, so three entry points are        *)
(* modelled: the script itself (main), a direct call of ModifyIssFiles and *)
(* a direct call of _GetVersionPrefix.                                     *)
(***************************************************************************)
EXTENDS Naturals, Sequences, FiniteSets

VARIABLES
  entry,      \* which function the process was started with
  argv,       \* sys.argv of the process (main entry), script name first
  pc,         \* the statement the process is at
  targetVer,  \* targetVer / targetVersion
  fs,         \* the files under ".": path -> content
  orig,       \* fs when the process started
  fileList,   \* the list GetFilesToModify returned (or the caller passed)
  work,       \* the rest of csprojFiles / issFiles still to be visited
  opened,     \* the paths open(..., "rb+") returned a file for, in order
  written,    \* the last f.write: the path and the fileData written
  out,        \* the lines printed to stdout
  calls,      \* the functions entered so far, in order
  err,        \* the exception that ended the process, if any
  result,     \* the value a directly called function returned
  second      \* TRUE in the second run of the script over the same tree

vars == <<entry, argv, pc, targetVer, fs, orig, fileList, work, opened,
          written, out, calls, err, result, second>>

\* The most files a tree holds.
MaxFiles == 2

\* The longest version string handed to _GetVersionPrefix directly.
MaxLen == 5

(***************************************************************************)
(* Text literals.                                                          *)
(***************************************************************************)
\* .csproj
ExtCsproj ==
  <<".","c","s","p","r","o","j">>

\* .inno
ExtInno ==
  <<".","i","n","n","o">>

\* .iss
ExtIss ==
  <<".","i","s","s">>

\* <Version>
VersionOpen ==
  <<"<","V","e","r","s","i","o","n",">">>

\* </Version>
VersionClose ==
  <<"<","/","V","e","r","s","i","o","n",">">>

\* <VersionPrefix>
VersionPrefixOpen ==
  <<"<","V","e","r","s","i","o","n","P","r","e","f","i","x",">">>

\* </VersionPrefix>
VersionPrefixClose ==
  <<"<","/","V","e","r","s","i","o","n","P","r","e","f","i","x",">">>

\* #define MyAppVersion 
IssDirective ==
  <<"#","d","e","f","i","n","e"," ","M","y","A","p","p","V","e","r","s","i","o","n"," ">>

\* Done.
DoneLine ==
  <<"D","o","n","e",".">>

\* Updating file 
UpdatingFile ==
  <<"U","p","d","a","t","i","n","g"," ","f","i","l","e"," ">>

\* .
Root ==
  <<".">>

\* src
DirSrc ==
  <<"s","r","c">>

\* Setup.inno
DirSetup ==
  <<"S","e","t","u","p",".","i","n","n","o">>

\* ./src
PathSrc ==
  <<".","/","s","r","c">>

\* ./src/Setup.inno
PathSetup ==
  <<".","/","s","r","c","/","S","e","t","u","p",".","i","n","n","o">>

\* app.csproj
NameCsproj ==
  <<"a","p","p",".","c","s","p","r","o","j">>

\* setup.iss
NameIss ==
  <<"s","e","t","u","p",".","i","s","s">>

\* setup.inno
NameInno ==
  <<"s","e","t","u","p",".","i","n","n","o">>

\* readme.txt
NameTxt ==
  <<"r","e","a","d","m","e",".","t","x","t">>

\* App.CSPROJ
NameUpper ==
  <<"A","p","p",".","C","S","P","R","O","J">>

\* SetVersion.py
Script ==
  <<"S","e","t","V","e","r","s","i","o","n",".","p","y">>

\* 2.3.1.7
Ver2317 ==
  <<"2",".","3",".","1",".","7">>

\* 5
Ver5 ==
  <<"5">>

\* <Version>1.0.0.0</Version>\n<VersionPrefix>1.0.0</VersionPrefix>\n
CsprojExample ==
  <<"<","V","e","r","s","i","o","n",">","1",".","0",".","0",".","0","<","/","V","e","r","s","i",
    "o","n",">","\n","<","V","e","r","s","i","o","n","P","r","e","f","i","x",">","1",".","0",
    ".","0","<","/","V","e","r","s","i","o","n","P","r","e","f","i","x",">","\n">>

\* <Version>1.0.0-beta.20161101.build7</Version><Version>9</Version>
CsprojLong ==
  <<"<","V","e","r","s","i","o","n",">","1",".","0",".","0","-","b","e","t","a",".","2","0","1",
    "6","1","1","0","1",".","b","u","i","l","d","7","<","/","V","e","r","s","i","o","n",">","<",
    "V","e","r","s","i","o","n",">","9","<","/","V","e","r","s","i","o","n",">">>

\* <Version>\n1.0.0.0\n</Version>\n
CsprojMultiLine ==
  <<"<","V","e","r","s","i","o","n",">","\n","1",".","0",".","0",".","0","\n","<","/","V","e",
    "r","s","i","o","n",">","\n">>

\* #define MyAppVersion "1.0.0.0"\n[Setup]\n
IssExample ==
  <<"#","d","e","f","i","n","e"," ","M","y","A","p","p","V","e","r","s","i","o","n"," ","\"",
    "1",".","0",".","0",".","0","\"","\n","[","S","e","t","u","p","]","\n">>

\* x #define MyAppVersion 1\n#define MyAppVersion "10.20.30.40"
IssTwo ==
  <<"x"," ","#","d","e","f","i","n","e"," ","M","y","A","p","p","V","e","r","s","i","o","n"," ",
    "1","\n","#","d","e","f","i","n","e"," ","M","y","A","p","p","V","e","r","s","i","o","n",
    " ","\"","1","0",".","2","0",".","3","0",".","4","0","\"">>

\* #define MyAppName "x"\n
IssNoDirective ==
  <<"#","d","e","f","i","n","e"," ","M","y","A","p","p","N","a","m","e"," ","\"","x","\"","\n">>

\* <Version>1.0.0.0</Version><VersionPrefix>1.0.0</VersionPrefix>\n#define MyAppVersion "1.0.0.0"\n
Mixed ==
  <<"<","V","e","r","s","i","o","n",">","1",".","0",".","0",".","0","<","/","V","e","r","s","i",
    "o","n",">","<","V","e","r","s","i","o","n","P","r","e","f","i","x",">","1",".","0",".","0",
    "<","/","V","e","r","s","i","o","n","P","r","e","f","i","x",">","\n","#","d","e","f","i",
    "n","e"," ","M","y","A","p","p","V","e","r","s","i","o","n"," ","\"","1",".","0",".","0",
    ".","0","\"","\n">>

\* EXTENSIONS = [".csproj", ".inno"]
EXTENSIONS == <<ExtCsproj, ExtInno>>

(***************************************************************************)
(* Library functions, computed as Python computes them.                    *)
(***************************************************************************)
Min(S) == CHOOSE x \in S : \A y \in S : x <= y

Max(S) == CHOOSE x \in S : \A y \in S : y <= x

\* str.find(pat, from): the least index >= from where pat occurs, 0 if none.
Find(data, pat, from) ==
  LET S == {i \in from..(Len(data) + 1 - Len(pat)) :
               SubSeq(data, i, i + Len(pat) - 1) = pat}
  IN  IF S = {} THEN 0 ELSE Min(S)

\* str.rfind(ch): the greatest index holding ch, 0 if none.
RFind(data, ch) ==
  LET S == {i \in 1..Len(data) : data[i] = ch}
  IN  IF S = {} THEN 0 ELSE Max(S)

Drop(data, n) == SubSeq(data, n + 1, Len(data))

\* os.path.join(path, x); no path of the walk ends in a separator.
PathJoin(path, x) == path \o <<"/">> \o x

\* os.path.splitext(p)[-1]: the text from the last dot of the last path
\* component on, provided a character other than a dot precedes that dot in
\* the component; otherwise the empty string.
SplitExt(p) ==
  LET sepIndex == RFind(p, "/")
      dotIndex == RFind(p, ".")
  IN  IF dotIndex > sepIndex
         /\ \E k \in (sepIndex + 1)..(dotIndex - 1) : p[k] # "."
      THEN SubSeq(p, dotIndex, Len(p))
      ELSE <<>>

\* targetVersion.split(".")
RECURSIVE Split(_)
Split(s) ==
  LET i == Find(s, <<".">>, 1)
  IN  IF i = 0 THEN <<s>>
      ELSE <<SubSeq(s, 1, i - 1)>> \o Split(Drop(s, i))

\* ".".join(parts)
RECURSIVE Join(_)
Join(parts) ==
  IF parts = <<>> THEN <<>>
  ELSE IF Len(parts) = 1 THEN parts[1]
  ELSE parts[1] \o <<".">> \o Join(Tail(parts))

\* parts[:-1]
AllButLast(parts) == SubSeq(parts, 1, Len(parts) - 1)

\* A plausible slip: parts[1:] drops the first component instead.
GetVersionPrefixDropFirst(targetVersion) == Join(Tail(Split(targetVersion)))

\* _GetVersionPrefix: "Assuming semver, truncate the last number".
GetVersionPrefix(targetVersion) == Join(AllButLast(Split(targetVersion)))

\* re.sub(open + "(.*?)" + close, repl, data): every non-overlapping match,
\* leftmost first, is replaced by repl.  A match starts at an occurrence of
\* open and ends with the first occurrence of close after it; "." does not
\* match a line feed, so there is no match when one lies in between.
RECURSIVE ReSubTag(_, _, _, _)
ReSubTag(open, close, repl, data) ==
  LET i == Find(data, open, 1)
      j == Find(data, close, i + Len(open))
  IN  IF i = 0 THEN data
      ELSE IF j # 0 /\ \A k \in (i + Len(open))..(j - 1) : data[k] # "\n"
      THEN SubSeq(data, 1, i - 1) \o repl
             \o ReSubTag(open, close, repl, Drop(data, j + Len(close) - 1))
      ELSE SubSeq(data, 1, i) \o ReSubTag(open, close, repl, Drop(data, i))

\* re.sub(r"(#define MyAppVersion ).*", r'\1' + tail, data): a match starts
\* at an occurrence of the directive and runs to the end of its line (".*"
\* is greedy and stops before a line feed); it is replaced by group 1, the
\* directive itself, followed by tail.
RECURSIVE ReSubDirective(_, _)
ReSubDirective(tail, data) ==
  LET i   == Find(data, IssDirective, 1)
      nl  == Find(data, <<"\n">>, i + Len(IssDirective))
      eol == IF nl = 0 THEN Len(data) + 1 ELSE nl
  IN  IF i = 0 THEN data
      ELSE SubSeq(data, 1, i - 1) \o IssDirective \o tail
             \o ReSubDirective(tail, Drop(data, eol - 1))

\* The two substitutions ModifyCsprojFiles applies to fileData.  The version
\* strings of the model hold no backslash, so the replacement template is
\* the formatted text itself.
CsprojData(fileData, targetVersion) ==
  ReSubTag(VersionPrefixOpen, VersionPrefixClose,
           VersionPrefixOpen \o GetVersionPrefix(targetVersion)
             \o VersionPrefixClose,
           ReSubTag(VersionOpen, VersionClose,
                    VersionOpen \o targetVersion \o VersionClose, fileData))

\* The substitution ModifyIssFiles applies: r'\1 "{0}"'.format(targetVersion)
\* is group 1, a space, and the version in double quotes.
IssData(fileData, targetVersion) ==
  ReSubDirective(<<" ", "\"">> \o targetVersion \o <<"\"">>, fileData)

\* A plausible slip: no f.seek(0), so the write lands after the bytes read.
WriteBackNoSeek(old, new) == old \o new

\* open(path, "rb+"); f.read(); f.seek(0); f.write(new): new overwrites the
\* file from offset 0; "rb+" does not truncate and nothing else does, so the
\* bytes of old beyond len(new) stay.
WriteBack(old, new) == new \o Drop(old, Len(new))

(***************************************************************************)
(* The directory tree.  The directories are fixed: "." holds "src", which  *)
(* holds "Setup.inno", a directory whose name ends in a listed extension.  *)
(* The files, their places and their contents are the input.               *)
(***************************************************************************)
DirPaths == {Root, PathSrc, PathSetup}

\* The file names a directory of the model may hold, in listing order.
Names == <<NameCsproj, NameInno, NameIss, NameTxt, NameUpper>>

\* os.walk's dirs for a directory.
SubDirs(top) ==
  IF top = Root THEN <<DirSrc>>
  ELSE IF top = PathSrc THEN <<DirSetup>>
  ELSE <<>>

\* os.walk's files for a directory of the tree t.
FilesIn(t, top) == SelectSeq(Names, LAMBDA x : PathJoin(top, x) \in DOMAIN t)

\* A plausible slip: only the top directory is listed, no recursion.
WalkTopOnly(t, top) ==
  <<[path |-> top, dirs |-> SubDirs(top), files |-> FilesIn(t, top)]>>

\* os.walk(top): top-down, one (path, dirs, files) for each directory.
RECURSIVE Walk(_, _)
Walk(t, top) ==
  LET RECURSIVE Below(_)
      Below(ds) == IF ds = <<>> THEN <<>>
                   ELSE Walk(t, PathJoin(top, Head(ds))) \o Below(Tail(ds))
  IN  <<[path |-> top, dirs |-> SubDirs(top), files |-> FilesIn(t, top)]>>
        \o Below(SubDirs(top))

\* The directories GetFilesToModify visits.
Visited(t) == Walk(t, Root)

\* A plausible slip: every file is taken, whatever its extension.
MatchingAny(files, exts) == files

\* f after "for ext in EXTENSIONS: f.extend(...)" for one directory.
RECURSIVE Matching(_, _)
Matching(files, exts) ==
  IF exts = <<>> THEN <<>>
  ELSE SelectSeq(files, LAMBDA x : SplitExt(x) = Head(exts))
         \o Matching(files, Tail(exts))

\* [os.path.join(path, x) for x in f]
Joined(path, f) == [k \in 1..Len(f) |-> PathJoin(path, f[k])]

\* GetFilesToModify over the tree t.
RECURSIVE Collect(_)
Collect(triples) ==
  IF triples = <<>> THEN <<>>
  ELSE Joined(Head(triples).path, Matching(Head(triples).files, EXTENSIONS))
         \o Collect(Tail(triples))

GetFilesToModify(t) == Collect(Visited(t))

\* csprojFiles and issFiles: the paths of fileList with the extension.
WithExt(list, ext) == SelectSeq(list, LAMBDA f : SplitExt(f) = ext)

(***************************************************************************)
(* Inputs.                                                                 *)
(***************************************************************************)
Versions == {Ver2317, Ver5}

\* The contents a file of the given name may start with.
MainContents ==
  [name \in {Names[k] : k \in 1..Len(Names)} |->
     IF name = NameCsproj
     THEN {CsprojExample, CsprojLong, CsprojMultiLine, <<>>}
     ELSE IF name = NameIss THEN {IssExample}
     ELSE {Mixed}]

IssContents ==
  [name \in {NameIss, NameCsproj} |->
     IF name = NameIss THEN {IssExample, IssTwo, IssNoDirective}
     ELSE {Mixed}]

Choices(contents, names) ==
  UNION {{[path |-> PathJoin(d, names[k]), data |-> c] :
            c \in contents[names[k]]} :
           d \in DirPaths, k \in 1..Len(names)}

\* The sets of at most n files with distinct paths.
RECURSIVE FileSets(_, _)
FileSets(choices, n) ==
  IF n = 0 THEN {{}}
  ELSE LET Smaller == FileSets(choices, n - 1)
       IN  Smaller \cup
           {S \cup {c} : <<S, c>> \in
              {sc \in Smaller \X choices :
                 \A x \in sc[1] : x.path # sc[2].path}}

TreeOf(S) ==
  [p \in {c.path : c \in S} |-> (CHOOSE c \in S : c.path = p).data]

MainTrees == {TreeOf(S) : S \in FileSets(Choices(MainContents, Names), MaxFiles)}

IssTrees ==
  {TreeOf(S) : S \in FileSets(Choices(IssContents, <<NameIss, NameCsproj>>),
                              MaxFiles)}

\* Every file of the tree, in walk order: a list a caller may pass.
RECURSIVE AllFiles(_)
AllFiles(triples) ==
  IF triples = <<>> THEN <<>>
  ELSE Joined(Head(triples).path, Head(triples).files)
         \o AllFiles(Tail(triples))

\* The strings over digits and dots of length at most n.
RECURSIVE Strings(_)
Strings(n) ==
  IF n = 0 THEN {<<>>}
  ELSE LET Shorter == Strings(n - 1)
       IN  Shorter \cup {Append(s, c) : s \in Shorter, c \in {"1", "2", "."}}

NoWrite == [path |-> <<>>, data |-> <<>>]

NoError == [type |-> "none", path |-> <<>>]

(***************************************************************************)
(* The process.                                                            *)
(***************************************************************************)
Fresh ==
  /\ orig = fs
  /\ work = <<>>
  /\ opened = <<>>
  /\ written = NoWrite
  /\ out = <<>>
  /\ calls = <<>>
  /\ err = NoError
  /\ result = <<>>
  /\ second = FALSE

\* python SetVersion.py [targetVer], run in the root of some tree.
InitMain ==
  /\ entry = "main"
  /\ argv \in {<<Script>>} \cup {<<Script, v>> : v \in Versions}
  /\ pc = "main"
  /\ targetVer = <<>>
  /\ fs \in MainTrees
  /\ fileList = <<>>
  /\ Fresh

\* ModifyIssFiles(fileList, targetVersion), called with the files of a tree.
InitIss ==
  /\ entry = "ModifyIssFiles"
  /\ argv = <<>>
  /\ pc = "ModifyIssFiles"
  /\ targetVer \in Versions
  /\ fs \in IssTrees
  /\ fileList = AllFiles(Visited(fs))
  /\ Fresh

\* _GetVersionPrefix(targetVersion), called with any short string.
InitPrefix ==
  /\ entry = "_GetVersionPrefix"
  /\ argv = <<>>
  /\ pc = "_GetVersionPrefix"
  /\ targetVer \in Strings(MaxLen)
  /\ fs = <<>>
  /\ fileList = <<>>
  /\ Fresh

Init == InitMain \/ InitIss \/ InitPrefix

\* main, line 12: targetVer = sys.argv[1]; IndexError without an argument.
Main ==
  /\ pc = "main"
  /\ calls' = Append(calls, "main")
  /\ IF Len(argv) < 2
     THEN /\ err' = [type |-> "IndexError", path |-> <<>>]
          /\ pc' = "error"
          /\ UNCHANGED targetVer
     ELSE /\ targetVer' = argv[2]
          /\ pc' = "GetFilesToModify"
          /\ UNCHANGED err
  /\ UNCHANGED <<entry, argv, fs, orig, fileList, work, opened, written, out,
                 result, second>>

\* main, line 13: fileList = GetFilesToModify()
CallGetFilesToModify ==
  /\ pc = "GetFilesToModify"
  /\ calls' = Append(calls, "GetFilesToModify")
  /\ fileList' = GetFilesToModify(fs)
  /\ pc' = "ModifyCsprojFiles"
  /\ UNCHANGED <<entry, argv, targetVer, fs, orig, work, opened, written, out,
                 err, result, second>>

\* ModifyCsprojFiles, line 32: csprojFiles
CallModifyCsprojFiles ==
  /\ pc = "ModifyCsprojFiles"
  /\ calls' = Append(calls, "ModifyCsprojFiles")
  /\ work' = WithExt(fileList, ExtCsproj)
  /\ pc' = "csproj"
  /\ UNCHANGED <<entry, argv, targetVer, fs, orig, fileList, opened, written,
                 out, err, result, second>>

\* One pass of an updater's loop in which open succeeds: the progress line,
\* then read, seek(0), the substitutions (giving fileData) and write.
Rewrite(at, fileData) ==
  /\ pc = at
  /\ work # <<>>
  /\ Head(work) \in DOMAIN fs
  /\ LET path == Head(work)
     IN  /\ out' = Append(out, UpdatingFile \o <<" ">> \o path)
         /\ opened' = Append(opened, path)
         /\ written' = [path |-> path, data |-> fileData]
         /\ fs' = [fs EXCEPT ![path] = WriteBack(fs[path], fileData)]
  /\ work' = Tail(work)
  /\ UNCHANGED <<entry, argv, pc, targetVer, orig, fileList, calls, err,
                 result, second>>

\* One pass in which open raises IOError (no permission, the file is gone):
\* nothing catches it, so it ends the process after the progress line.
OpenFails(at) ==
  /\ pc = at
  /\ work # <<>>
  /\ out' = Append(out, UpdatingFile \o <<" ">> \o Head(work))
  /\ err' = [type |-> "IOError", path |-> Head(work)]
  /\ pc' = "error"
  /\ UNCHANGED <<entry, argv, targetVer, fs, orig, fileList, work, opened,
                 written, calls, result, second>>

\* An updater whose caller catches the IOError and goes on with the next file.
OpenFailsCaught(at) ==
  /\ pc = at
  /\ work # <<>>
  /\ out' = Append(out, UpdatingFile \o <<" ">> \o Head(work))
  /\ err' = [type |-> "IOError", path |-> Head(work)]
  /\ work' = Tail(work)
  /\ UNCHANGED <<entry, argv, pc, targetVer, fs, orig, fileList, opened,
                 written, calls, result, second>>

\* ModifyCsprojFiles, lines 33-42, one file.
CsprojRewrite == Rewrite("csproj", CsprojData(fs[Head(work)], targetVer))

CsprojOpenFailsCaught == OpenFailsCaught("csproj")

\* ModifyCsprojFiles, line 35, open raising.
CsprojOpenFails == OpenFails("csproj")

\* ModifyCsprojFiles returns to main, line 16.
ModifyCsprojFilesReturn ==
  /\ pc = "csproj"
  /\ work = <<>>
  /\ pc' = "ModifyIssFiles"
  /\ UNCHANGED <<entry, argv, targetVer, fs, orig, fileList, work, opened,
                 written, out, calls, err, result, second>>

\* ModifyIssFiles, line 45: issFiles
CallModifyIssFiles ==
  /\ pc = "ModifyIssFiles"
  /\ calls' = Append(calls, "ModifyIssFiles")
  /\ work' = WithExt(fileList, ExtIss)
  /\ pc' = "iss"
  /\ UNCHANGED <<entry, argv, targetVer, fs, orig, fileList, opened, written,
                 out, err, result, second>>

\* ModifyIssFiles, lines 46-54, one file.
IssRewrite == Rewrite("iss", IssData(fs[Head(work)], targetVer))

\* ModifyIssFiles, line 48, open raising.
IssOpenFails == OpenFails("iss")

\* ModifyIssFiles returns: to main, line 18, or to its direct caller.
ModifyIssFilesReturn ==
  /\ pc = "iss"
  /\ work = <<>>
  /\ pc' = IF entry = "main" THEN "print" ELSE "done"
  /\ UNCHANGED <<entry, argv, targetVer, fs, orig, fileList, work, opened,
                 written, out, calls, err, result, second>>

\* main, line 18: print "Done."
PrintDone ==
  /\ pc = "print"
  /\ out' = Append(out, DoneLine)
  /\ pc' = "done"
  /\ UNCHANGED <<entry, argv, targetVer, fs, orig, fileList, work, opened,
                 written, calls, err, result, second>>

\* The script is run once more with the same argument over the tree the
\* first run left: a new process, whose original tree is that one.
Rerun ==
  /\ entry = "main"
  /\ pc = "done"
  /\ ~second
  /\ second' = TRUE
  /\ pc' = "main"
  /\ orig' = fs
  /\ targetVer' = <<>>
  /\ fileList' = <<>>
  /\ work' = <<>>
  /\ opened' = <<>>
  /\ written' = NoWrite
  /\ out' = <<>>
  /\ calls' = <<>>
  /\ UNCHANGED <<entry, argv, fs, err, result>>

\* _GetVersionPrefix, lines 57-60, called directly.
CallGetVersionPrefix ==
  /\ pc = "_GetVersionPrefix"
  /\ calls' = Append(calls, "_GetVersionPrefix")
  /\ result' = GetVersionPrefix(targetVer)
  /\ pc' = "done"
  /\ UNCHANGED <<entry, argv, targetVer, fs, orig, fileList, work, opened,
                 written, out, err, second>>

Next ==
  \/ Main
  \/ CallGetFilesToModify
  \/ CallModifyCsprojFiles
  \/ CsprojRewrite
  \/ CsprojOpenFails
  \/ ModifyCsprojFilesReturn
  \/ CallModifyIssFiles
  \/ IssRewrite
  \/ IssOpenFails
  \/ ModifyIssFilesReturn
  \/ PrintDone
  \/ Rerun
  \/ CallGetVersionPrefix

Spec == Init /\ [][Next]_vars

(***************************************************************************)
(* Vocabulary of the properties.                                           *)
(***************************************************************************)
InSeq(x, s) == \E k \in 1..Len(s) : s[k] = x

Count(x, s) == Cardinality({k \in 1..Len(s) : s[k] = x})

Quoted(v) == <<"\"">> \o v \o <<"\"">>

\* The texts between an open tag and the first close tag after it on the
\* same line: the values the tags of data hold.
TagValues(open, close, data) ==
  {SubSeq(data, i + Len(open), j - 1) :
     <<i, j>> \in {ij \in (1..Len(data)) \X (1..Len(data)) :
        /\ ij[1] + Len(open) - 1 <= Len(data)
        /\ SubSeq(data, ij[1], ij[1] + Len(open) - 1) = open
        /\ ij[2] = Find(data, close, ij[1] + Len(open))
        /\ \A k \in (ij[1] + Len(open))..(ij[2] - 1) : data[k] # "\n"}}

NoMatch(data) ==
  /\ TagValues(VersionOpen, VersionClose, data) = {}
  /\ TagValues(VersionPrefixOpen, VersionPrefixClose, data) = {}

\* The csproj files of the tree in discovery order.
CsprojFiles == WithExt(fileList, ExtCsproj)

Position(x, s) == Min({k \in 1..Len(s) : s[k] = x})

(***************************************************************************)
(* Properties.                                                             *)
(***************************************************************************)

\* C1: after a full run of main with target version V, every .iss file of
\* the tree has been discovered and opened by the installer-script updater,
\* and one that held the MyAppVersion directive holds it with "V".
C1_IssFilesProcessed ==
  (entry = "main" /\ pc = "done") =>
    \A p \in DOMAIN fs : SplitExt(p) = ExtIss =>
      /\ InSeq(p, fileList)
      /\ InSeq(p, opened)
      /\ Find(orig[p], IssDirective, 1) # 0 =>
           Find(fs[p], IssDirective \o Quoted(targetVer), 1) # 0

\* C2: after a completed run every <Version> tag of every .csproj file on
\* disk holds exactly V and every <VersionPrefix> tag holds V without its
\* last dot-separated component; no tag with another value remains.
C2_TagsHoldTarget ==
  (entry = "main" /\ pc = "done") =>
    \A p \in DOMAIN fs : SplitExt(p) = ExtCsproj =>
      /\ TagValues(VersionOpen, VersionClose, fs[p]) \subseteq {targetVer}
      /\ TagValues(VersionPrefixOpen, VersionPrefixClose, fs[p])
           \subseteq {GetVersionPrefix(targetVer)}

\* C3: a second run with the same V changes no byte of any file: the tree
\* after the second run is the tree the first run left.
C3_SecondRunChangesNothing ==
  (entry = "main" /\ second /\ pc = "done") => fs = orig

\* C4: after an updater has written a file, the file on disk is exactly the
\* transformed text it wrote, whatever the lengths of old and new content.
C4_FileIsWhatWasWritten ==
  written # NoWrite => fs[written.path] = written.data

\* C5: ModifyIssFiles turns every match of the directive and the rest of its
\* line into the directive immediately followed by "V", and leaves all other
\* text of each .iss file of its list as it was.
C5_DirectiveThenQuotedVersion ==
  (entry = "ModifyIssFiles" /\ pc = "done") =>
    \A p \in DOMAIN fs : (InSeq(p, fileList) /\ SplitExt(p) = ExtIss) =>
      fs[p] = ReSubDirective(Quoted(targetVer), orig[p])

\* C6: _GetVersionPrefix raises nothing and touches nothing; for V with a
\* dot it returns V up to, not including, its last dot, and for V without a
\* dot (the empty string included) it returns the empty string.
C6_PrefixIsUpToLastDot ==
  entry = "_GetVersionPrefix" =>
    /\ pc \in {"_GetVersionPrefix", "done"}
    /\ err = NoError
    /\ fs = orig
    /\ out = <<>>
    /\ pc = "done" =>
         result = IF RFind(targetVer, ".") = 0 THEN <<>>
                  ELSE SubSeq(targetVer, 1, RFind(targetVer, ".") - 1)

C6_Witness ==
  /\ entry = "_GetVersionPrefix"
  /\ pc = "done"
  /\ targetVer = <<"1", ".", "2", ".", "1">>
  /\ result = <<"1", ".", "2">>

\* C7: in a run of main a file whose extension is not in EXTENSIONS is never
\* opened by an updater and keeps its content, whatever text it holds.
C7_OtherFilesUntouched ==
  entry = "main" =>
    \A p \in DOMAIN fs : ~InSeq(SplitExt(p), EXTENSIONS) =>
      /\ fs[p] = orig[p]
      /\ ~InSeq(p, opened)

C7_Witness ==
  /\ entry = "main"
  /\ pc = "done"
  /\ \E p \in DOMAIN fs : SplitExt(p) = <<".", "t", "x", "t">> /\ fs[p] = Mixed
  /\ \E q \in DOMAIN fs : fs[q] # orig[q]

\* C8: when the project file an updater pass opens holds no match of either
\* tag pattern, the pass raises nothing, leaves the file byte-identical and
\* the loop goes on with the rest of the list.
C8_NoMatchIsNoOp ==
  [][(/\ pc = "csproj"
      /\ work # <<>>
      /\ NoMatch(fs[Head(work)])
      /\ Len(opened') > Len(opened))
     => (/\ fs' = fs
         /\ written'.data = fs[Head(work)]
         /\ err' = NoError
         /\ pc' = "csproj"
         /\ work' = Tail(work))]_vars

C8_Witness ==
  /\ entry = "main"
  /\ pc = "done"
  /\ Len(opened) = 2
  /\ orig[opened[1]] = CsprojMultiLine
  /\ NoMatch(orig[opened[1]])
  /\ fs[opened[1]] = orig[opened[1]]
  /\ fs[opened[2]] # orig[opened[2]]

\* C9: when opening the k-th project file fails, the process has stopped
\* with that error; the project files before it hold what the updater wrote
\* over them, the k-th and the later ones hold their original content, the
\* installer-script pass has not started and "Done." has not been printed.
C9_FailureStopsWithoutRollback ==
  (entry = "main" /\ err.type = "IOError" /\ InSeq(err.path, CsprojFiles)) =>
    LET k == Position(err.path, CsprojFiles)
    IN  /\ pc = "error"
        /\ \A i \in 1..Len(CsprojFiles) :
             fs[CsprojFiles[i]] =
               IF i < k
               THEN WriteBack(orig[CsprojFiles[i]],
                              CsprojData(orig[CsprojFiles[i]], targetVer))
               ELSE orig[CsprojFiles[i]]
        /\ ~InSeq("ModifyIssFiles", calls)
        /\ ~InSeq(DoneLine, out)

C9_Witness ==
  /\ entry = "main"
  /\ err.type = "IOError"
  /\ Len(CsprojFiles) = 2
  /\ err.path = CsprojFiles[2]
  /\ opened = <<CsprojFiles[1]>>
  /\ fs[CsprojFiles[1]] # orig[CsprojFiles[1]]

\* C10: the list GetFilesToModify returned holds every file of the tree
\* whose extension is, case-sensitively, an entry of EXTENSIONS exactly once,
\* at any depth, and holds nothing else.
C10_ExactlyTheListedExtensions ==
  InSeq("GetFilesToModify", calls) =>
    /\ \A p \in DOMAIN fs :
         Count(p, fileList) = IF InSeq(SplitExt(p), EXTENSIONS) THEN 1 ELSE 0
    /\ \A k \in 1..Len(fileList) : fileList[k] \in DOMAIN fs

C10_Witness ==
  /\ InSeq("GetFilesToModify", calls)
  /\ fileList = <<PathJoin(Root, NameCsproj), PathJoin(PathSetup, NameInno)>>

=============================================================================
